---- MODULE Spec2Model ----
(***************************************************************************)
(* Model of the ik_benchmarking launch files:                              *)
(*   launch/start_ik_benchmarking.launch.py          (server + client)     *)
(*   launch/start_ik_benchmarking_clients.launch.py  (client only)         *)
(*                                                                         *)
(* A Python str is a sequence of symbols.  A symbol is either one          *)
(* character or a fixed run of characters that the code only handles as a  *)
(* whole ("moveit", "ik_solver_", ...).  No symbol is a prefix of another, *)
(* so two symbol sequences are equal exactly when the texts are, and "_"   *)
(* is a symbol of its own, so str.split("_") is exact.                     *)
(*                                                                         *)
(* A Python value is a tagged tuple: None, a str, an int or a dict.        *)
(***************************************************************************)
EXTENDS Integers, Sequences, FiniteSets, TLC

VARIABLES
    pc,            \* position of the launch process
    argv,          \* sys.argv: a sequence of arguments, each split at ":="
    config_data,   \* the parsed ik_benchmarking.yaml
    pkg,           \* a package name handed to the robot-name inferers
    loaded,        \* outcome of load_benchmarking_config
    robot,         \* outcome of get_robot_name
    clients,       \* outcome of generate_launch_description (clients file)
    outcome,       \* outcome of generate_launch_description (server + client)
    idx,           \* number of description entities the launch service has visited
    now,           \* seconds elapsed since the launch service started
    server,        \* state of the server process
    server_at,     \* time the server process was started, -1 before
    timer,         \* the TimerAction of the description once it is armed
    client_at,     \* time the client process was started, -1 before
    server_starts, \* number of times the server process was started
    client_starts  \* number of times the client process was started

vars == <<pc, argv, config_data, pkg, loaded, robot, clients, outcome, idx, now,
          server, server_at, timer, client_at, server_starts, client_starts>>

----------------------------------------------------------------------------
(* Bounds of the model *)

MaxDefects == 2     \* deviations of a configuration from the well-formed one
MaxSample == 1      \* largest sample_size drawn
MaxNameLen == 4     \* symbols of a package name drawn freely
MaxRobotLen == 1    \* symbols of a robot token
MaxArgLen == 2      \* symbols of an ik_solver_number value
MaxTime == 3        \* seconds the clock may run before the timer is armed

----------------------------------------------------------------------------
(* Python values *)

None == <<"none">>
PyStr(s) == <<"str", s>>
PyInt(n) == <<"int", n>>
PyDict(f) == <<"dict", f>>
EmptyDict == PyDict([k \in {} |-> None])

\* bool(v): None, "", 0 and {} are falsy
Truthy(v) ==
    CASE v[1] = "none" -> FALSE
      [] v[1] = "str"  -> v[2] # <<>>
      [] v[1] = "int"  -> v[2] # 0
      [] v[1] = "dict" -> DOMAIN v[2] # {}

\* d.get(key)
dict_get(d, key) == IF key \in DOMAIN d[2] THEN d[2][key] ELSE None

\* code point of the first character of a symbol
Ord(c) ==
    CASE c = "-" -> 45
      [] c = "0" -> 48
      [] c = "1" -> 49
      [] c = "2" -> 50
      [] c = "3" -> 51
      [] c = "4" -> 52
      [] c = "_kinematics_file" -> 95
      [] c = "a" -> 97

\* a > b on str: lexicographic by code point, a proper prefix is smaller
RECURSIVE str_gt(_, _)
str_gt(a, b) ==
    IF a = <<>> THEN FALSE
    ELSE IF b = <<>> THEN TRUE
    ELSE IF Ord(Head(a)) # Ord(Head(b)) THEN Ord(Head(a)) > Ord(Head(b))
    ELSE str_gt(Tail(a), Tail(b))

\* s.startswith(p)
startswith(s, p) == Len(s) >= Len(p) /\ SubSeq(s, 1, Len(p)) = p

\* s.split("_"): the runs between the "_" symbols, empty runs included
RECURSIVE split(_)
split(s) ==
    IF \A i \in 1..Len(s) : s[i] # "_" THEN <<s>>
    ELSE LET i == CHOOSE j \in 1..Len(s) :
                      s[j] = "_" /\ \A k \in 1..(j - 1) : s[k] # "_"
         IN  <<SubSeq(s, 1, i - 1)>> \o split(SubSeq(s, i + 1, Len(s)))

\* '_'.join(parts)
RECURSIVE join(_)
join(parts) ==
    IF parts = <<>> THEN <<>>
    ELSE IF Len(parts) = 1 THEN parts[1]
    ELSE parts[1] \o <<"_">> \o join(Tail(parts))

\* parts[:n]
Take(parts, n) == SubSeq(parts, 1, IF Len(parts) < n THEN Len(parts) ELSE n)

\* Values of the variables before the step that sets them
NotRun == [raised |-> "not run", message |-> <<>>, value |-> <<>>]
NoName == [exit |-> -1, value |-> <<>>]
NoTimer == [state |-> "idle", at |-> -1, period |-> 0, actions |-> <<>>]
NoClients == [exit |-> -1, value |-> <<>>, package |-> <<>>, file |-> <<>>]

----------------------------------------------------------------------------
(* start_ik_benchmarking.launch.py *)

\* String literals of the source
ik_solver_number == <<"ik_solver_number">>
moveit_config_pkg == <<"moveit_config_pkg">>
move_group == <<"move_group">>
sample_size == <<"sample_size">>
ik_solvers == <<"ik_solvers">>
name == <<"name">>
kinematics_file == <<"kinematics_file">>
iiwa_moveit_config == <<"iiwa", "_", "moveit", "_", "config">>
Digit(n) == CASE n = 1 -> "1" [] n = 2 -> "2" [] n = 3 -> "3"
ik_solver_(n) == <<"ik_solver_", Digit(n)>>
ik_solver_kinematics_file(n) == <<"ik_solver_", Digit(n), "_kinematics_file">>

\* get_cmdline_argument that falls back to '1'
RECURSIVE get_cmdline_argument_default_1(_, _)
get_cmdline_argument_default_1(args, arg_name) ==
    IF args = <<>> THEN <<"1">>
    ELSE IF Len(Head(args)) >= 2 /\ Head(args)[1] = arg_name THEN Head(args)[2]
    ELSE get_cmdline_argument_default_1(Tail(args), arg_name)

\* get_cmdline_argument: the text between the first and the second ":=" of the
\* first argument that starts with arg_name ":=", '0' when there is none
RECURSIVE get_cmdline_argument(_, _)
get_cmdline_argument(args, arg_name) ==
    IF args = <<>> THEN <<"0">>
    ELSE IF Len(Head(args)) >= 2 /\ Head(args)[1] = arg_name THEN Head(args)[2]
    ELSE get_cmdline_argument(Tail(args), arg_name)

\* get_config_data whose error message does not interpolate the key
get_config_data_plain_message(key, parent_data, data) ==
    LET source_data == IF Truthy(parent_data) THEN parent_data ELSE data
        value == dict_get(source_data, key)
    IN  IF value = None
        THEN [raised |-> "ValueError",
              message |-> <<"Missing required configuration key ">>,
              value |-> None]
        ELSE [raised |-> "", message |-> <<>>, value |-> value]

\* get_config_data that rejects every falsy value ("if not value")
get_config_data_falsy(key, parent_data, data) ==
    LET source_data == IF Truthy(parent_data) THEN parent_data ELSE data
        value == dict_get(source_data, key)
    IN  IF ~Truthy(value)
        THEN [raised |-> "ValueError",
              message |-> <<"Missing required configuration key ">> \o key,
              value |-> None]
        ELSE [raised |-> "", message |-> <<>>, value |-> value]

\* get_config_data: the value under key, taken from parent_data when that is
\* truthy and from the whole file otherwise; a None value raises
get_config_data(key, parent_data, data) ==
    LET source_data == IF Truthy(parent_data) THEN parent_data ELSE data
        value == dict_get(source_data, key)
    IN  IF value = None
        THEN [raised |-> "ValueError",
              message |-> <<"Missing required configuration key ">> \o key,
              value |-> None]
        ELSE [raised |-> "", message |-> <<>>, value |-> value]

\* load_benchmarking_config: the seven checked lookups in source order, the
\* six unchecked .get calls, and the dictionary returned
load_benchmarking_config(data) ==
    LET r_moveit_config_pkg == get_config_data(moveit_config_pkg, None, data)
        r_move_group == get_config_data(move_group, None, data)
        r_sample_size == get_config_data(sample_size, None, data)
        ik_solvers_data == get_config_data(ik_solvers, None, data)
        ik_solver_1_data == get_config_data(ik_solver_(1), ik_solvers_data.value, data)
        ik_solver_2_data == get_config_data(ik_solver_(2), ik_solvers_data.value, data)
        ik_solver_3_data == get_config_data(ik_solver_(3), ik_solvers_data.value, data)
        ik_solver_1 == dict_get(ik_solver_1_data.value, name)
        ik_solver_2 == dict_get(ik_solver_2_data.value, name)
        ik_solver_3 == dict_get(ik_solver_3_data.value, name)
        ik_solver_1_kinematics_file == dict_get(ik_solver_1_data.value, kinematics_file)
        ik_solver_2_kinematics_file == dict_get(ik_solver_2_data.value, kinematics_file)
        ik_solver_3_kinematics_file == dict_get(ik_solver_3_data.value, kinematics_file)
    IN  IF r_moveit_config_pkg.raised # "" THEN r_moveit_config_pkg
        ELSE IF r_move_group.raised # "" THEN r_move_group
        ELSE IF r_sample_size.raised # "" THEN r_sample_size
        ELSE IF ik_solvers_data.raised # "" THEN ik_solvers_data
        ELSE IF ik_solver_1_data.raised # "" THEN ik_solver_1_data
        ELSE IF ik_solver_2_data.raised # "" THEN ik_solver_2_data
        ELSE IF ik_solver_3_data.raised # "" THEN ik_solver_3_data
        ELSE [raised |-> "", message |-> <<>>,
              value |-> PyDict(
                  (moveit_config_pkg :> r_moveit_config_pkg.value)
                  @@ (move_group :> r_move_group.value)
                  @@ (sample_size :> r_sample_size.value)
                  @@ (ik_solver_(1) :> ik_solver_1)
                  @@ (ik_solver_(2) :> ik_solver_2)
                  @@ (ik_solver_(3) :> ik_solver_3)
                  @@ (ik_solver_kinematics_file(1) :> ik_solver_1_kinematics_file)
                  @@ (ik_solver_kinematics_file(2) :> ik_solver_2_kinematics_file)
                  @@ (ik_solver_kinematics_file(3) :> ik_solver_3_kinematics_file))]

\* get_robot_name without the moveit_resources special case
get_robot_name_first_token(package) ==
    LET parts == split(package)
    IN  IF Len(parts) < 2
        THEN [exit |-> 1, value |-> <<>>]
        ELSE [exit |-> 0, value |-> parts[1]]

\* get_robot_name: exit(1) on fewer than two tokens, the first three tokens
\* when the first two are "moveit", "resources", the first token otherwise
get_robot_name(package) ==
    LET parts == split(package)
        package_name_prefix == join(Take(parts, 2))
    IN  IF Len(parts) < 2
        THEN [exit |-> 1, value |-> <<>>]
        ELSE IF package_name_prefix = <<"moveit", "_", "resources">>
        THEN [exit |-> 0, value |-> join(Take(parts, 3))]
        ELSE [exit |-> 0, value |-> parts[1]]

\* get_package_share_directory(package), a directory of its own per package
get_package_share_directory(package) == <<"share">> \o package

\* os.path.join(directory, "config", file) with a relative file name
os_path_join(directory, middle, file) == <<directory, middle, file>>

\* MoveItConfigsBuilder(robot_name).robot_description_kinematics(file_path)
\* .to_moveit_configs(): the three parameter sets the nodes are given
MoveItConfigsBuilder(robot_name, file_path) ==
    [robot_description |-> <<"robot_description", robot_name>>,
     robot_description_semantic |-> <<"robot_description_semantic", robot_name>>,
     robot_description_kinematics |-> <<"robot_description_kinematics", file_path>>]

\* The solver key that ignores the command line
ik_solver_key_first(ik_solver_value) == <<"ik_solver_", "1">>

\* ik_solver_key: '' unless the value is greater than '0' as a string
ik_solver_key(ik_solver_value) ==
    IF str_gt(ik_solver_value, <<"0">>)
    THEN <<"ik_solver_">> \o ik_solver_value
    ELSE <<>>

\* kinematics_file_key: '' unless the value is greater than '0' as a string
kinematics_file_key(ik_solver_value) ==
    IF str_gt(ik_solver_value, <<"0">>)
    THEN <<"ik_solver_">> \o ik_solver_value \o <<"_kinematics_file">>
    ELSE <<>>

TimerPeriod == 2

\* The entities of a description
Node(executable, parameters) ==
    [kind |-> "Node", package |-> "ik_benchmarking", executable |-> executable,
     parameters |-> parameters]
TimerAction(period, actions) ==
    [kind |-> "TimerAction", period |-> period, actions |-> actions]
DeclareLaunchArgument(arg_name, default_value) ==
    [kind |-> "DeclareLaunchArgument", name |-> arg_name,
     default_value |-> default_value]

\* A description that starts the client node with the server node
LaunchDescription_no_delay(server_node, client_node, ik_solver_arg) ==
    <<server_node, client_node, ik_solver_arg>>

\* The description returned: the server node, the client node inside a timer
\* of two seconds, the argument declaration
LaunchDescription(server_node, client_node, ik_solver_arg) ==
    <<server_node, TimerAction(TimerPeriod, <<client_node>>), ik_solver_arg>>

Raise(kind, message) == [raised |-> kind, message |-> message, value |-> <<>>]

\* generate_launch_description, from the loaded configuration on
compose_launch_description(ik_solver_value, benchmarking_config, robot_name) ==
    LET package == benchmarking_config[2][moveit_config_pkg][2]
        file_key == kinematics_file_key(ik_solver_value)
        solver_key == ik_solver_key(ik_solver_value)
        file == benchmarking_config[2][file_key]
        file_path == os_path_join(get_package_share_directory(package),
                                  <<"config">>, file[2])
        moveit_config == MoveItConfigsBuilder(robot_name, file_path)
        benchmarking_server_node ==
            Node("ik_benchmarking_server",
                 <<moveit_config.robot_description,
                   moveit_config.robot_description_semantic,
                   moveit_config.robot_description_kinematics,
                   [move_group |-> benchmarking_config[2][move_group],
                    sample_size |-> benchmarking_config[2][sample_size]]>>)
        benchmarking_client_node ==
            Node("ik_benchmarking_client",
                 <<moveit_config.robot_description,
                   moveit_config.robot_description_semantic,
                   moveit_config.robot_description_kinematics,
                   [move_group |-> benchmarking_config[2][move_group],
                    sample_size |-> benchmarking_config[2][sample_size],
                    ik_solver |-> benchmarking_config[2][solver_key]]>>)
    IN  IF file_key \notin DOMAIN benchmarking_config[2]
        THEN Raise("KeyError", file_key)
        ELSE IF file = None
        THEN Raise("TypeError", file_key)
        ELSE IF solver_key \notin DOMAIN benchmarking_config[2]
        THEN Raise("KeyError", solver_key)
        ELSE [raised |-> "", message |-> <<>>,
              value |-> LaunchDescription(
                            benchmarking_server_node,
                            benchmarking_client_node,
                            DeclareLaunchArgument(ik_solver_number, <<"0">>))]

\* generate_launch_description: the argument, the configuration, the robot
\* name, then the description; any failure on the way ends the function
generate_launch_description(args, data) ==
    LET ik_solver_value == get_cmdline_argument(args, ik_solver_number)
        benchmarking_config == load_benchmarking_config(data)
        robot_name == get_robot_name(benchmarking_config.value[2][moveit_config_pkg][2])
    IN  IF benchmarking_config.raised # ""
        THEN [loaded |-> benchmarking_config, robot |-> NoName,
              outcome |-> Raise(benchmarking_config.raised,
                                benchmarking_config.message)]
        ELSE IF robot_name.exit # 0
        THEN [loaded |-> benchmarking_config, robot |-> robot_name,
              outcome |-> Raise("SystemExit", <<>>)]
        ELSE [loaded |-> benchmarking_config, robot |-> robot_name,
              outcome |-> compose_launch_description(
                              ik_solver_value, benchmarking_config.value,
                              robot_name.value)]

----------------------------------------------------------------------------
(* start_ik_benchmarking_clients.launch.py *)

\* The robot name with the special case of get_robot_name applied
clients_robot_name_special(moveit_config_pkg_name) ==
    LET parts == split(moveit_config_pkg_name)
    IN  IF Len(parts) >= 2 /\ join(Take(parts, 2)) = <<"moveit", "_", "resources">>
        THEN join(Take(parts, 3))
        ELSE parts[1]

\* moveit_config_pkg_name.split("_")[0]
clients_robot_name(moveit_config_pkg_name) == split(moveit_config_pkg_name)[1]

\* The loop over sys.argv: every moveit_config_pkg:= argument sets the package
\* and the robot name, every kinematics_file:= argument the file; the last wins
RECURSIVE clients_scan_argv(_, _)
clients_scan_argv(args, st) ==
    IF args = <<>> THEN st
    ELSE LET arg == Head(args)
         IN  IF Len(arg) >= 2 /\ arg[1] = moveit_config_pkg
             THEN clients_scan_argv(Tail(args),
                      [st EXCEPT !.moveit_config_pkg_name = arg[2],
                                 !.robot_name = clients_robot_name(arg[2])])
             ELSE IF Len(arg) >= 2 /\ arg[1] = kinematics_file
             THEN clients_scan_argv(Tail(args),
                      [st EXCEPT !.kinematics_file_name = arg[2]])
             ELSE clients_scan_argv(Tail(args), st)

\* generate_launch_description of the clients file: the defaults, the loop, and
\* the single client node of the description
clients_generate_launch_description(args) ==
    LET st == clients_scan_argv(args,
                  [robot_name |-> <<"iiwa">>,
                   moveit_config_pkg_name |-> iiwa_moveit_config,
                   kinematics_file_name |-> <<"kinematics.yaml">>])
    IN  [exit |-> 0,
         value |-> st.robot_name,
         package |-> st.moveit_config_pkg_name,
         file |-> st.kinematics_file_name]

----------------------------------------------------------------------------
(* Inputs: the configuration files drawn *)

TopKeys == {moveit_config_pkg, move_group, sample_size, ik_solvers}
TopShapes == {"ok", "absent", "null", "empty"}
SolverShapes == {"ok", "absent", "null", "empty", "noname", "nofile"}

\* A solver entry of the file: both keys, one of them or none
SolverEntry(n, shape) ==
    CASE shape = "null" -> None
      [] shape = "empty" -> EmptyDict
      [] shape = "noname" ->
           PyDict(kinematics_file :> PyStr(<<"kinematics", Digit(n), ".yaml">>))
      [] shape = "nofile" -> PyDict(name :> PyStr(<<"solver", Digit(n)>>))
      [] OTHER ->
           PyDict((name :> PyStr(<<"solver", Digit(n)>>))
                  @@ (kinematics_file :> PyStr(<<"kinematics", Digit(n), ".yaml">>)))

\* The ik_solvers mapping of the file
SolversEntry(sol) ==
    PyDict([k \in {ik_solver_(n) : n \in {m \in 1..3 : sol[m] # "absent"}} |->
              LET n == CHOOSE m \in 1..3 : k = ik_solver_(m)
              IN  SolverEntry(n, sol[n])])

\* A parsed file: top gives the shape of each top-level key, sol the shape of
\* each solver entry, stray adds solver entries at the top level
Config(top, sol, stray, p, n) ==
    PyDict([k \in {t \in TopKeys : top[t] # "absent"}
                  \cup (IF stray THEN {ik_solver_(m) : m \in 1..3} ELSE {}) |->
              IF k \notin TopKeys
              THEN PyDict((name :> PyStr(<<"stray">>))
                          @@ (kinematics_file :> PyStr(<<"stray.yaml">>)))
              ELSE IF top[k] = "null" THEN None
              ELSE IF k = moveit_config_pkg THEN PyStr(p)
              ELSE IF k = move_group THEN PyStr(<<"arm">>)
              ELSE IF k = sample_size THEN PyInt(n)
              ELSE IF top[k] = "empty" THEN EmptyDict
              ELSE SolversEntry(sol)])

\* Shapes with at most d deviations from the well-formed file
Shapes(d) ==
    {sh \in [top : [TopKeys -> TopShapes], sol : [1..3 -> SolverShapes]] :
        /\ \A t \in TopKeys \ {ik_solvers} : sh.top[t] # "empty"
        /\ sh.top[ik_solvers] # "ok" => \A m \in 1..3 : sh.sol[m] = "ok"
        /\ Cardinality({t \in TopKeys : sh.top[t] # "ok"})
              + Cardinality({m \in 1..3 : sh.sol[m] # "ok"}) <= d}

\* Package names the configuration files carry
ConfigPackages ==
    {iiwa_moveit_config,
     <<"moveit", "_", "resources", "_", "panda", "_", "moveit", "_", "config">>,
     <<"robot">>}

Configs(d, strays, samples) ==
    {Config(sh.top, sh.sol, stray, p, n) :
        sh \in Shapes(d), stray \in strays, p \in ConfigPackages, n \in samples}

----------------------------------------------------------------------------
(* State machines *)


\* -- load_benchmarking_config on every configuration file drawn --

InitLoad ==
    /\ pc = "start"
    /\ \E c \in Configs(MaxDefects, BOOLEAN, 0..MaxSample) :
          /\ config_data = c
          /\ argv = <<>>
          /\ pkg = <<>>
          /\ loaded = NotRun
          /\ robot = NoName
          /\ clients = NoClients
          /\ outcome = NotRun
          /\ idx = 0
          /\ now = 0
          /\ server = "none"
          /\ server_at = -1
          /\ timer = NoTimer
          /\ client_at = -1
          /\ server_starts = 0
          /\ client_starts = 0

Load ==
    /\ pc = "start"
    /\ loaded' = load_benchmarking_config(config_data)
    /\ pc' = "loaded"
    /\ UNCHANGED <<argv, config_data, pkg, robot, clients, outcome, idx, now,
                   server, server_at, timer, client_at, server_starts,
                   client_starts>>

NextLoad == Load

SpecLoad == InitLoad /\ [][NextLoad]_vars

\* -- the two robot-name inferers on every package name drawn --

NameSymbols == {"_", "moveit", "resources", "config", "x"}
RobotSymbols == NameSymbols \ {"_"}

\* All sequences over S of length at most n
RECURSIVE SeqsUpTo(_, _)
SeqsUpTo(S, n) ==
    IF n = 0 THEN {<<>>}
    ELSE LET shorter == SeqsUpTo(S, n - 1)
         IN  shorter \cup {Append(q, c) : q \in shorter, c \in S}

\* Robot names: a single non-empty token without underscores
Robots == SeqsUpTo(RobotSymbols, MaxRobotLen) \ {<<>>}

_moveit_config == <<"_", "moveit", "_", "config">>
moveit_resources_ == <<"moveit", "_", "resources", "_">>

PackageNames ==
    SeqsUpTo(NameSymbols, MaxNameLen)
        \cup {iiwa_moveit_config}
        \cup {R \o _moveit_config : R \in Robots}
        \cup {moveit_resources_ \o R \o _moveit_config : R \in Robots}

\* Command lines of the clients file that select package p
ClientsArgv(p) ==
    {<< <<moveit_config_pkg, p>> >>,
     << <<moveit_config_pkg, <<"x">>, p>>, <<kinematics_file, <<"k.yaml">>>>,
        <<move_group, <<"arm">>>>, <<moveit_config_pkg, p>> >>}
        \cup (IF p = iiwa_moveit_config
              THEN {<<>>, << <<kinematics_file, <<"k.yaml">>>> >>}
              ELSE {})

InitName ==
    /\ pc = "start"
    /\ \E p \in PackageNames : \E a \in ClientsArgv(p) :
          /\ pkg = p
          /\ argv = a
          /\ config_data = EmptyDict
          /\ loaded = NotRun
          /\ robot = NoName
          /\ clients = NoClients
          /\ outcome = NotRun
          /\ idx = 0
          /\ now = 0
          /\ server = "none"
          /\ server_at = -1
          /\ timer = NoTimer
          /\ client_at = -1
          /\ server_starts = 0
          /\ client_starts = 0

\* start_ik_benchmarking infers the robot name of pkg
GetRobotName ==
    /\ robot = NoName
    /\ robot' = get_robot_name(pkg)
    /\ pc' = "named"
    /\ UNCHANGED <<argv, config_data, pkg, loaded, clients, outcome, idx, now,
                   server, server_at, timer, client_at, server_starts,
                   client_starts>>

\* start_ik_benchmarking_clients builds its description from the command line
ClientsGenerate ==
    /\ clients = NoClients
    /\ clients' = clients_generate_launch_description(argv)
    /\ pc' = "named"
    /\ UNCHANGED <<argv, config_data, pkg, loaded, robot, outcome, idx, now,
                   server, server_at, timer, client_at, server_starts,
                   client_starts>>

NextName == GetRobotName \/ ClientsGenerate

SpecName == InitName /\ [][NextName]_vars

\* -- ros2 launch of start_ik_benchmarking: the description is generated, --
\* -- then the launch service visits its entities in order                --

ArgSymbols == {"-", "0", "1", "2", "3", "4", "a", "_kinematics_file"}
ArgValues == SeqsUpTo(ArgSymbols, MaxArgLen)

\* Command lines: without the argument, with it, and with it among others
LaunchArgv ==
    {<<>>, << <<move_group, <<"arm">>>> >>}
        \cup {<< <<ik_solver_number, v>> >> : v \in ArgValues}
        \cup {<< <<<<"start_ik_benchmarking.launch.py">>>>,
                 <<ik_solver_number, v, <<"1">>>>,
                 <<ik_solver_number, <<"1">>>> >> : v \in ArgValues}

LaunchConfigs == Configs(1, {FALSE}, {MaxSample})

Init ==
    /\ pc = "start"
    /\ argv \in LaunchArgv
    /\ config_data \in LaunchConfigs
    /\ pkg = <<>>
    /\ loaded = NotRun
    /\ robot = NoName
    /\ clients = NoClients
    /\ outcome = NotRun
    /\ idx = 0
    /\ now = 0
    /\ server = "none"
    /\ server_at = -1
    /\ timer = NoTimer
    /\ client_at = -1
    /\ server_starts = 0
    /\ client_starts = 0

\* The launch file is evaluated: generate_launch_description runs to its end
Generate ==
    /\ pc = "start"
    /\ LET g == generate_launch_description(argv, config_data)
       IN  /\ loaded' = g.loaded
           /\ robot' = g.robot
           /\ outcome' = g.outcome
           /\ pc' = IF g.outcome.raised = "" THEN "described" ELSE "aborted"
    /\ UNCHANGED <<argv, config_data, pkg, clients, idx, now, server, server_at,
                   timer, client_at, server_starts, client_starts>>

\* Number of nodes with the given executable among the entities
Count(entities, executable) ==
    Cardinality({i \in 1..Len(entities) :
        entities[i].kind = "Node" /\ entities[i].executable = executable})

\* The launch service executes entities at the current time: a node starts its
\* process, a timer is armed, an argument declaration starts nothing
Execute(entities) ==
    /\ IF Count(entities, "ik_benchmarking_server") > 0
       THEN /\ server' = "running"
            /\ server_at' = now
            /\ server_starts' = server_starts + Count(entities, "ik_benchmarking_server")
       ELSE UNCHANGED <<server, server_at, server_starts>>
    /\ IF Count(entities, "ik_benchmarking_client") > 0
       THEN /\ client_at' = now
            /\ client_starts' = client_starts + Count(entities, "ik_benchmarking_client")
       ELSE UNCHANGED <<client_at, client_starts>>

\* The next entity of the description is visited
Visit ==
    /\ pc = "described"
    /\ idx < Len(outcome.value)
    /\ idx' = idx + 1
    /\ LET e == outcome.value[idx + 1]
       IN  /\ Execute(<<e>>)
           /\ IF e.kind = "TimerAction"
              THEN timer' = [state |-> "armed", at |-> now,
                             period |-> e.period, actions |-> e.actions]
              ELSE UNCHANGED timer
    /\ UNCHANGED <<pc, argv, config_data, pkg, loaded, robot, clients, outcome, now>>

\* A timer that waits for the server to report ready
TimerDue_when_ready ==
    timer.state = "armed" /\ now >= timer.at + timer.period /\ server = "ready"

\* The armed timer has run for its period
TimerDue == timer.state = "armed" /\ now >= timer.at + timer.period

\* The timer fires, once, and its actions are executed
TimerFire ==
    /\ TimerDue
    /\ timer' = [timer EXCEPT !.state = "fired"]
    /\ Execute(timer.actions)
    /\ UNCHANGED <<pc, argv, config_data, pkg, loaded, robot, clients, outcome,
                   idx, now>>

\* A second passes; the clock stops at MaxTime unless a timer is still pending
Tick ==
    /\ pc = "described"
    /\ \/ now < MaxTime
       \/ timer.state = "armed" /\ now < timer.at + timer.period
    /\ now' = now + 1
    /\ UNCHANGED <<pc, argv, config_data, pkg, loaded, robot, clients, outcome,
                   idx, server, server_at, timer, client_at, server_starts,
                   client_starts>>

\* The server process reports ready, fails or exits, at any time after its start
ServerStep ==
    /\ \/ server = "running" /\ server' \in {"ready", "failed", "exited"}
       \/ server = "ready" /\ server' \in {"failed", "exited"}
    /\ UNCHANGED <<pc, argv, config_data, pkg, loaded, robot, clients, outcome,
                   idx, now, server_at, timer, client_at, server_starts,
                   client_starts>>

Next == Generate \/ Visit \/ TimerFire \/ Tick \/ ServerStep

Spec == Init /\ [][Next]_vars

\* The launch service keeps visiting entities, its clock keeps running and a
\* due timer fires; nothing is assumed of the server process
FairSpec == Spec /\ WF_vars(Visit) /\ WF_vars(Tick) /\ WF_vars(TimerFire)

----------------------------------------------------------------------------
(* Properties of load_benchmarking_config, checked under SpecLoad *)

\* d is a mapping that holds a non-null value under key
Has(d, key) == d[1] = "dict" /\ key \in DOMAIN d[2] /\ d[2][key] # None

\* The solver entry n of the file is there with a name and a kinematics_file
FullSolver(data, n) ==
    /\ Has(data, ik_solvers)
    /\ Has(data[2][ik_solvers], ik_solver_(n))
    /\ Has(data[2][ik_solvers][2][ik_solver_(n)], name)
    /\ Has(data[2][ik_solvers][2][ik_solver_(n)], kinematics_file)

WellFormed(data) ==
    /\ \A t \in TopKeys : Has(data, t)
    /\ \A n \in 1..3 : FullSolver(data, n)

\* The file is well-formed except that one top-level key is not in it
MissingTop(data, key) ==
    /\ key \notin DOMAIN data[2]
    /\ \A t \in TopKeys \ {key} : Has(data, t)
    /\ key # ik_solvers => \A n \in 1..3 : FullSolver(data, n)

\* The file is well-formed except that solver entry n is not in ik_solvers
MissingSolver(data, n) ==
    /\ \A t \in TopKeys : Has(data, t)
    /\ ik_solver_(n) \notin DOMAIN data[2][ik_solvers][2]
    /\ \A m \in (1..3) \ {n} : FullSolver(data, m)

NineFields ==
    {moveit_config_pkg, move_group, sample_size}
        \cup {ik_solver_(n) : n \in 1..3}
        \cup {ik_solver_kinematics_file(n) : n \in 1..3}

\* C1: loading a well-formed configuration succeeds and returns exactly the
\* nine fields, each equal to the value of the file it is named after: the
\* three top-level values, and for every N the name and the kinematics_file
\* of ik_solvers.ik_solver_N, none altered and none taken from another entry.
C1_WellFormedLoads ==
    (pc = "loaded" /\ WellFormed(config_data)) =>
        /\ loaded.raised = ""
        /\ loaded.value[1] = "dict"
        /\ DOMAIN loaded.value[2] = NineFields
        /\ \A t \in {moveit_config_pkg, move_group, sample_size} :
              loaded.value[2][t] = config_data[2][t]
        /\ \A n \in 1..3 :
              /\ loaded.value[2][ik_solver_(n)]
                    = config_data[2][ik_solvers][2][ik_solver_(n)][2][name]
              /\ loaded.value[2][ik_solver_kinematics_file(n)]
                    = config_data[2][ik_solvers][2][ik_solver_(n)][2][kinematics_file]

\* A well-formed file with sample_size 0 and stray top-level solver entries
\* has been loaded
C1_Witness ==
    /\ pc = "loaded"
    /\ WellFormed(config_data)
    /\ config_data[2][sample_size] = PyInt(0)
    /\ ik_solver_(1) \in DOMAIN config_data[2]
    /\ loaded.raised = ""

\* C2: loading a configuration that is well-formed except for one missing
\* required key returns no mapping: it raises the missing-required-key error
\* and the message names that key.
C2_MissingKeyNamed ==
    pc = "loaded" =>
        /\ \A t \in TopKeys :
              MissingTop(config_data, t) =>
                  /\ loaded.raised = "ValueError"
                  /\ loaded.message = <<"Missing required configuration key ">> \o t
        /\ \A n \in 1..3 :
              MissingSolver(config_data, n) =>
                  /\ loaded.raised = "ValueError"
                  /\ loaded.message
                        = <<"Missing required configuration key ", "ik_solver_", Digit(n)>>

\* The load of a file that lacks only ik_solvers.ik_solver_2 has failed
C2_Witness ==
    /\ pc = "loaded"
    /\ MissingSolver(config_data, 2)
    /\ loaded.raised = "ValueError"

\* The load of a file that lacks only the top-level key ik_solvers has failed
C2_WitnessTop ==
    /\ pc = "loaded"
    /\ MissingTop(config_data, ik_solvers)
    /\ loaded.raised = "ValueError"

\* C7: after a successful load the six solver fields ik_solver_1..3 and
\* ik_solver_1..3_kinematics_file are all non-null (a solver entry without
\* name or kinematics_file is rejected at load time).
C7_SolverFieldsNonNull ==
    (pc = "loaded" /\ loaded.raised = "") =>
        \A n \in 1..3 :
            /\ loaded.value[2][ik_solver_(n)] # None
            /\ loaded.value[2][ik_solver_kinematics_file(n)] # None

----------------------------------------------------------------------------
(* Properties of the robot-name inferers, checked under SpecName *)

\* Number of underscore-separated tokens of s
TokenCount(s) == Cardinality({i \in 1..Len(s) : s[i] = "_"}) + 1

\* The text of s before its first underscore
FirstToken(s) ==
    LET stops == {i \in 1..Len(s) : s[i] = "_"}
    IN  IF stops = {} THEN s
        ELSE SubSeq(s, 1, (CHOOSE i \in stops : \A j \in stops : i <= j) - 1)

\* The first two tokens of s are "moveit" and "resources"
MoveitResourcesTokens(s) ==
    \/ s = <<"moveit", "_", "resources">>
    \/ startswith(s, moveit_resources_)

\* s follows "<robot>_moveit_config" or "moveit_resources_<robot>_moveit_config"
\* for a non-empty robot token without underscores
Standard(s) ==
    LET parts == split(s)
    IN  \/ /\ Len(parts) = 3
           /\ parts[1] # <<>>
           /\ parts[2] = <<"moveit">> /\ parts[3] = <<"config">>
        \/ /\ Len(parts) = 5
           /\ parts[1] = <<"moveit">> /\ parts[2] = <<"resources">>
           /\ parts[3] # <<>>
           /\ parts[4] = <<"moveit">> /\ parts[5] = <<"config">>

\* C3: for every robot name R that is one non-empty token without
\* underscores, get_robot_name(R_moveit_config) returns R when the package
\* name does not begin with moveit_resources, and
\* get_robot_name(moveit_resources_R_moveit_config) returns moveit_resources_R.
C3_StandardNames ==
    robot # NoName =>
        \A R \in Robots :
            /\ (pkg = R \o _moveit_config
                   /\ ~startswith(pkg, <<"moveit", "_", "resources">>))
                 => robot = [exit |-> 0, value |-> R]
            /\ pkg = moveit_resources_ \o R \o _moveit_config
                 => robot = [exit |-> 0, value |-> moveit_resources_ \o R]

\* get_robot_name has returned for moveit_resources_x_moveit_config
C3_Witness ==
    /\ pkg = moveit_resources_ \o <<"x">> \o _moveit_config
    /\ robot # NoName
    /\ robot.exit = 0

\* get_robot_name has returned for x_moveit_config
C3_WitnessPlain ==
    /\ pkg = <<"x">> \o _moveit_config
    /\ robot # NoName
    /\ robot.exit = 0

\* C4: get_robot_name terminates the process with a non-zero exit status for
\* every package name that follows neither standard convention, and returns a
\* name only for names that follow one of the two.
C4_NonStandardExits ==
    robot # NoName =>
        /\ ~Standard(pkg) => robot.exit # 0
        /\ robot.exit = 0 => Standard(pkg)

----------------------------------------------------------------------------
(* Properties of the launch of start_ik_benchmarking, checked under Spec and *)
(* FairSpec                                                                  *)

IsNode(e, executable) == e.kind = "Node" /\ e.executable = executable

\* C5: the server node is a direct entry of the description, the client node
\* is never a direct entry and is an action of a timer of period 2 s, and in
\* every launch the client process starts no earlier than 2 seconds after the
\* server process.
C5_ClientDelayed ==
    /\ pc = "described" =>
          /\ \E i \in 1..Len(outcome.value) :
                IsNode(outcome.value[i], "ik_benchmarking_server")
          /\ \A i \in 1..Len(outcome.value) :
                ~IsNode(outcome.value[i], "ik_benchmarking_client")
          /\ \E i \in 1..Len(outcome.value) :
                /\ outcome.value[i].kind = "TimerAction"
                /\ outcome.value[i].period = 2
                /\ \E j \in 1..Len(outcome.value[i].actions) :
                      IsNode(outcome.value[i].actions[j], "ik_benchmarking_client")
    /\ client_starts > 0 =>
          /\ server_starts > 0
          /\ client_at >= server_at + 2

\* The client process has started exactly two seconds after the server process
C5_Witness ==
    /\ client_starts = 1
    /\ server_starts = 1
    /\ client_at = server_at + 2

\* C6: once a description is produced the client process is eventually
\* started, whatever the server process does; the client and the server are
\* never started twice, an armed timer is never cancelled, and a started client
\* stays started.
C6_ClientUnconditional ==
    /\ [](pc = "described" => <>(client_starts = 1))
    /\ [](client_starts <= 1 /\ server_starts <= 1)
    /\ [][timer.state = "armed" => timer'.state \in {"armed", "fired"}]_vars
    /\ [][client_starts = 1 => client_starts' = 1]_vars

\* The client process has started although the server process has failed
C6_Witness ==
    /\ client_starts = 1
    /\ server = "failed"
    /\ timer.state = "fired"

\* The command line passes ik_solver_number:=v in its first such argument
Passed(v) ==
    \E i \in 1..Len(argv) :
        /\ Len(argv[i]) >= 2
        /\ argv[i][1] = ik_solver_number
        /\ argv[i][2] = v
        /\ \A j \in 1..(i - 1) : argv[j][1] # ik_solver_number

NotPassed == \A i \in 1..Len(argv) : argv[i][1] # ik_solver_number

C9_OnlyOneTwoThree ==
    LET good == \E N \in 1..3 : Passed(<<Digit(N)>>)
    IN  /\ pc = "described" => good
        /\ (pc # "start" /\ ~good) =>
              /\ pc = "aborted"
              /\ outcome.raised # ""
              /\ outcome.value = <<>>
              /\ (loaded.raised = "" /\ robot.exit = 0) =>
                    /\ outcome.raised = "KeyError"
                    /\ outcome.message \notin DOMAIN loaded.value[2]
                    /\ \/ outcome.message = <<>>
                       \/ /\ Head(outcome.message) = "ik_solver_"
                          /\ outcome.message[Len(outcome.message)] = "_kinematics_file"
              /\ server_starts = 0
              /\ client_starts = 0
              /\ server = "none"
              /\ timer = NoTimer

\* The function has aborted at the kinematics-file lookup for
\* ik_solver_number:=4
C9_Witness ==
    /\ pc = "aborted"
    /\ Passed(<<"4">>)
    /\ outcome.raised = "KeyError"
    /\ outcome.message = <<"ik_solver_", "4", "_kinematics_file">>

\* The function has aborted at the kinematics-file lookup without the argument
C9_WitnessAbsent ==
    /\ pc = "aborted"
    /\ NotPassed
    /\ outcome.raised = "KeyError"
    /\ outcome.message = <<>>

====
